---- MODULE Spec2Model ----
(***************************************************************************)
(* MECE audience segmentation engine (src/mece.py).                        *)
(*                                                                         *)
(* A DataFrame is a sequence of rows; a boolean mask over it is the set of *)
(* row positions where it is True.  Timestamps are whole days relative to  *)
(* the evaluation time datetime.now(), which is 0.  engagement_score and   *)
(* profitability_score are held in thousandths (the data is rounded to 3   *)
(* decimals), avg_order_value in whole currency units.  Real arithmetic is *)
(* exact: a real is a normalised fraction <<n, d>> with d > 0.             *)
(***************************************************************************)
EXTENDS Integers, Sequences, FiniteSets, TLC

VARIABLES
    pc,                 \* position of run_segmentation
    df,                 \* the caller's DataFrame handed to run_segmentation
    min_segment_size,   \* self.min_segment_size
    universe_df,        \* self.universe_df (None before define_universe)
    segments,           \* the list create_mece_segments returns
    mece_log,           \* what _validate_mece printed
    scored_segments,    \* the list compute_segment_scores returns
    engine_segments,    \* self.segments
    seg_stats,          \* a segment's aggregates, input of the scoring body
    seg_score,          \* the scored_segment dict built from seg_stats
    rank_in,            \* scored segments in arrival order, before the sort
    rank_out            \* the list after scored_segments.sort(...)

vars == <<pc, df, min_segment_size, universe_df, segments, mece_log,
          scored_segments, engine_segments, seg_stats, seg_score,
          rank_in, rank_out>>

(***************************************************************************)
(* Bounds of the model.                                                    *)
(***************************************************************************)
MaxUsers == 3
MaxMinSegmentSize == 2
MaxRanked == 4

(***************************************************************************)
(* Program constants.                                                      *)
(***************************************************************************)
max_segment_size == 20000
WindowDays == 7
RecentDays == 30
optimal_size == 5000
AovHighPct == 75
AovMediumPct == 40
EngagementHighPct == 70
EngagementMediumPct == 40
ProfitabilityHighPct == 70

(***************************************************************************)
(* Exact fractions.                                                        *)
(***************************************************************************)
Abs(x) == IF x < 0 THEN -x ELSE x

RECURSIVE GCD(_, _)
GCD(a, b) == IF b = 0 THEN a ELSE GCD(b, a % b)

Rat(n, d) == LET g == GCD(Abs(n), d) IN <<n \div g, d \div g>>

Zero == <<0, 1>>
One == <<1, 1>>

RAdd(p, q) ==
    LET g == GCD(p[2], q[2])
        l == (p[2] \div g) * q[2]
    IN  Rat(p[1] * (l \div p[2]) + q[1] * (l \div q[2]), l)

\* (kn / kd) * p
RScale(kn, kd, p) == Rat(kn * p[1], kd * p[2])

\* min(p, 1.0)
RMin1(p) == IF p[1] <= p[2] THEN p ELSE One

\* max(0.5, p)
RMaxHalf(p) == IF 2 * p[1] >= p[2] THEN p ELSE <<1, 2>>

\* round(p, k) with scale = 10^k, as the integer round(p, k) * scale;
\* a value exactly half way goes to the even neighbour.
Round(p, scale) ==
    LET x == scale * p[1]
        q == x \div p[2]
        r == x - q * p[2]
    IN  IF 2 * r < p[2] THEN q
        ELSE IF 2 * r > p[2] THEN q + 1
        ELSE IF q % 2 = 0 THEN q ELSE q + 1

(***************************************************************************)
(* Column values.  A date cell is a '%Y-%m-%d' string, None, or, after     *)
(* pd.to_datetime, a Timestamp or NaT.                                     *)
(***************************************************************************)
DateStr(t) == [kind |-> "str", t |-> t]
NoDate == [kind |-> "None", t |-> 0]
Timestamp(t) == [kind |-> "datetime", t |-> t]
NaT == [kind |-> "NaT", t |-> 0]

\* pd.to_datetime of one cell
to_datetime(c) ==
    CASE c.kind = "str" -> Timestamp(c.t)
      [] c.kind = "None" -> NaT
      [] OTHER -> c

\* Series.notna() of one cell
notna(c) == c.kind \notin {"None", "NaT"}

\* cell >= bound for a Timestamp column: NaT compares False
DateGE(c, bound) == c.kind = "datetime" /\ c.t >= bound

Rows(d) == DOMAIN d

RECURSIVE SumOver(_, _, _)
SumOver(d, mask, col) ==
    IF mask = {} THEN 0
    ELSE LET i == CHOOSE j \in mask : TRUE
         IN  d[i][col] + SumOver(d, mask \ {i}, col)

Aov(r) == r.avg_order_value
Eng(r) == r.engagement_score
Prof(r) == r.profitability_score

(***************************************************************************)
(* Series.quantile(q): linear interpolation between the two order          *)
(* statistics around position (n - 1) * q.  NaN (an empty column) is the   *)
(* fraction with denominator 0; every comparison with it is False.         *)
(***************************************************************************)
NaN == <<0, 0>>

RECURSIVE InsertAsc(_, _)
InsertAsc(x, s) ==
    IF s = <<>> THEN <<x>>
    ELSE IF x <= Head(s) THEN <<x>> \o s
    ELSE <<Head(s)>> \o InsertAsc(x, Tail(s))

RECURSIVE SortedColumn(_, _, _)
SortedColumn(d, col, n) ==
    IF n = 0 THEN <<>> ELSE InsertAsc(d[n][col], SortedColumn(d, col, n - 1))

quantile(d, col, pct) ==
    IF Len(d) = 0 THEN NaN
    ELSE LET v == SortedColumn(d, col, Len(d))
             pos == (Len(d) - 1) * pct
             lo == pos \div 100
             frac == pos % 100
             hi == IF frac = 0 THEN lo ELSE lo + 1
         IN  Rat(100 * v[lo + 1] + (v[hi + 1] - v[lo + 1]) * frac, 100)

\* value >= threshold
GE(x, thr) == thr[2] # 0 /\ x * thr[2] >= thr[1]

\* the thresholds with the top tier cut at the 90th percentile instead
Thresholds_top_decile(d) ==
    [aov_high |-> quantile(d, "avg_order_value", 90),
     aov_medium |-> quantile(d, "avg_order_value", AovMediumPct),
     engagement_high |-> quantile(d, "engagement_score", EngagementHighPct),
     engagement_medium |-> quantile(d, "engagement_score", EngagementMediumPct),
     profitability_high |-> quantile(d, "profitability_score", ProfitabilityHighPct)]

\* the five thresholds of create_mece_segments, computed once over df
Thresholds(d) ==
    [aov_high |-> quantile(d, "avg_order_value", AovHighPct),
     aov_medium |-> quantile(d, "avg_order_value", AovMediumPct),
     engagement_high |-> quantile(d, "engagement_score", EngagementHighPct),
     engagement_medium |-> quantile(d, "engagement_score", EngagementMediumPct),
     profitability_high |-> quantile(d, "profitability_score", ProfitabilityHighPct)]

(***************************************************************************)
(* define_universe                                                         *)
(***************************************************************************)
\* df['cart_abandoned_date'] = pd.to_datetime(df['cart_abandoned_date'])
ConvertCartDates(d) ==
    [i \in DOMAIN d |->
        [d[i] EXCEPT !.cart_abandoned_date = to_datetime(@)]]

cutoff_date == 0 - WindowDays

InUniverse(r) == DateGE(r.cart_abandoned_date, cutoff_date)

\* df[df['cart_abandoned_date'] >= cutoff_date].copy()
define_universe(d) == SelectSeq(ConvertCartDates(d), InUniverse)

(***************************************************************************)
(* create_mece_segments: the masks, in the order the code builds them.     *)
(* d is the DataFrame it is given, m is self.min_segment_size.             *)
(***************************************************************************)
\* the dict appended to segments; its 'rules' text is display only and is
\* left out
Segment(name, mask, priority) ==
    [name |-> name, mask |-> mask, size |-> Cardinality(mask),
     priority |-> priority]

\* the conditions each rule puts on a row, beside remaining_mask
Rule1Pred(th, r) == GE(Aov(r), th.aov_high)
Rule2Pred(th, r) == GE(Aov(r), th.aov_medium) /\ GE(Eng(r), th.engagement_high)
Rule3Pred(th, r) ==
    /\ GE(Aov(r), th.aov_medium)
    /\ GE(Eng(r), th.engagement_medium)
    /\ GE(Prof(r), th.profitability_high)
Rule4Pred(th, r) == GE(Eng(r), th.engagement_high)
Rule5Pred(th, r) ==
    /\ notna(r.last_order_date)
    /\ DateGE(to_datetime(r.last_order_date), 0 - RecentDays)

RulePred(j, th, r) ==
    CASE j = 1 -> Rule1Pred(th, r)
      [] j = 2 -> Rule2Pred(th, r)
      [] j = 3 -> Rule3Pred(th, r)
      [] j = 4 -> Rule4Pred(th, r)
      [] j = 5 -> Rule5Pred(th, r)

RuleName(j) ==
    CASE j = 1 -> "High_AOV_Premium"
      [] j = 2 -> "Med_AOV_High_Engagement"
      [] j = 3 -> "Med_AOV_Med_Eng_High_Prof"
      [] j = 4 -> "Low_AOV_High_Engagement"
      [] j = 5 -> "Recent_Customers"

\* len(sN_df) >= self.min_segment_size
Materialized(mask, m) == Cardinality(mask) >= m

s1_mask(d, th) == {i \in Rows(d) : Rule1Pred(th, d[i])}

\* remaining_mask = ~s1_mask: outside the if, so taken whether or not
\* segment 1 was appended
remaining_after_s1(d, s1, m) == Rows(d) \ s1

s2_mask(d, th, remaining) == {i \in remaining : Rule2Pred(th, d[i])}

s3_mask(d, th, remaining) == {i \in remaining : Rule3Pred(th, d[i])}

\* rule 4 without its remaining_mask conjunct
s4_mask_unmasked(d, th, remaining) == {i \in Rows(d) : Rule4Pred(th, d[i])}

s4_mask(d, th, remaining) == {i \in remaining : Rule4Pred(th, d[i])}

recent_customers_mask(d, th, remaining) ==
    {i \in remaining : Rule5Pred(th, d[i])}

\* the update forgotten: remaining_mask left as it was
remaining_after_kept(remaining, mask, m) == remaining

\* remaining_mask = remaining_mask & ~sN_mask, inside the if of rules 2 to 5
remaining_after(remaining, mask, m) ==
    IF Materialized(mask, m) THEN remaining \ mask ELSE remaining

\* The run of create_mece_segments over d with min_segment_size m:
\* mask[j] is the candidate mask of rule j, remaining[j] is remaining_mask
\* after the block of rule j.
Partition(d, m) ==
    LET th == Thresholds(d)
        s1 == s1_mask(d, th)
        r1 == remaining_after_s1(d, s1, m)
        s2 == s2_mask(d, th, r1)
        r2 == remaining_after(r1, s2, m)
        s3 == s3_mask(d, th, r2)
        r3 == remaining_after(r2, s3, m)
        s4 == s4_mask(d, th, r3)
        r4 == remaining_after(r3, s4, m)
        s5 == recent_customers_mask(d, th, r4)
        r5 == remaining_after(r4, s5, m)
    IN  [thresholds |-> th,
         mask |-> <<s1, s2, s3, s4, s5>>,
         remaining |-> <<r1, r2, r3, r4, r5>>,
         else_mask |-> r5]

\* segments.append({...}) of each rule whose candidate is large enough
RECURSIVE ExplicitSegments(_, _, _)
ExplicitSegments(p, m, j) ==
    IF j = 0 THEN <<>>
    ELSE LET before == ExplicitSegments(p, m, j - 1)
         IN  IF Materialized(p.mask[j], m)
             THEN Append(before, Segment(RuleName(j), p.mask[j], j))
             ELSE before

create_mece_segments(d, m) ==
    LET p == Partition(d, m)
    IN  Append(ExplicitSegments(p, m, 5),
               Segment("Other_Bucket", p.else_mask, 999))

(***************************************************************************)
(* _validate_mece: prints, never raises.                                   *)
(***************************************************************************)
UserIds(d, mask) == {d[i].user_id : i \in mask}

RECURSIVE AssignedBefore(_, _, _)
AssignedBefore(d, segs, k) ==
    IF k = 0 THEN {}
    ELSE AssignedBefore(d, segs, k - 1) \cup UserIds(d, segs[k].mask)

validate_mece(d, segs) ==
    LET all_assigned_users == AssignedBefore(d, segs, Len(segs))
        warnings == {k \in 1..Len(segs) :
                        AssignedBefore(d, segs, k - 1) \cap UserIds(d, segs[k].mask) # {}}
    IN  [overlap_warnings |-> {segs[k].name : k \in warnings},
         verdict |-> IF Cardinality(all_assigned_users) # Len(d)
                     THEN "ERROR: Not collectively exhaustive!"
                     ELSE "MECE Validation Passed"]

(***************************************************************************)
(* compute_segment_scores                                                  *)
(***************************************************************************)
\* Series.mean() of a column over the rows of mask; unit is the number of
\* column units in 1 (1000 for thousandths)
Mean(d, mask, col, unit) == Rat(SumOver(d, mask, col), unit * Cardinality(mask))

\* segment_data = df[segment['mask']] and its aggregates
SegmentStats(d, seg) ==
    [name |-> seg.name,
     size |-> Cardinality(seg.mask),
     avg_engagement |-> Mean(d, seg.mask, "engagement_score", 1000),
     avg_sessions |-> Mean(d, seg.mask, "sessions_last_30d", 1),
     avg_profitability |-> Mean(d, seg.mask, "profitability_score", 1000),
     avg_aov |-> Mean(d, seg.mask, "avg_order_value", 1)]

conversion_potential(st) ==
    LET recency_factor == RMin1(RScale(1, 10, st.avg_sessions))
    IN  RAdd(RScale(7, 10, st.avg_engagement), RScale(3, 10, recency_factor))

profitability(st) ==
    RAdd(RScale(8, 10, st.avg_profitability),
         RScale(2, 10, RMin1(RScale(1, 1000, st.avg_aov))))

size_score(st) ==
    IF st.size <= optimal_size
    THEN Rat(st.size, optimal_size)
    ELSE RMaxHalf(RAdd(One, Rat(0 - (st.size - optimal_size), 20000)))

\* noise is the draw of np.random.normal(0.1, 0.05), in thousandths
lift_vs_control(st, noise) ==
    LET base_lift == RAdd(RScale(4, 10, st.avg_engagement),
                          RScale(3, 10, RMin1(RScale(1, 2000, st.avg_aov))))
    IN  RMin1(RAdd(base_lift, Rat(noise, 1000)))

\* 'High_Engagement' in segment['name']
ContainsHighEngagement(name) ==
    name \in {"Med_AOV_High_Engagement", "Low_AOV_High_Engagement"}

strategic_fit(st) ==
    IF st.name = "High_AOV_Premium" THEN Rat(95, 100)
    ELSE IF st.name = "Med_AOV_High_Engagement" THEN Rat(85, 100)
    ELSE IF ContainsHighEngagement(st.name) THEN Rat(75, 100)
    ELSE IF st.name = "Recent_Customers" THEN Rat(70, 100)
    ELSE Rat(50, 100)

overall_score(conversion, profit, lift, fit, size_sc) ==
    RAdd(RAdd(RAdd(RAdd(RScale(25, 100, conversion),
                        RScale(25, 100, profit)),
                   RScale(20, 100, lift)),
              RScale(20, 100, fit)),
         RScale(10, 100, size_sc))

\* the scored_segment dict; scores are round(x, 3) in thousandths, avg_aov is
\* round(x, 2) in hundredths
scored_segment(st, noise, m) ==
    LET conversion == conversion_potential(st)
        profit == profitability(st)
        lift == lift_vs_control(st, noise)
        fit == strategic_fit(st)
        size_sc == size_score(st)
    IN  [segment_name |-> st.name,
         size |-> st.size,
         conversion_potential |-> Round(conversion, 1000),
         profitability |-> Round(profit, 1000),
         lift_vs_control |-> Round(lift, 1000),
         strategic_fit |-> Round(fit, 1000),
         size_score |-> Round(size_sc, 1000),
         overall_score |->
             Round(overall_score(conversion, profit, lift, fit, size_sc), 1000),
         valid |-> (m <= st.size /\ st.size <= max_segment_size),
         avg_aov |-> Round(st.avg_aov, 100),
         avg_engagement |-> Round(st.avg_engagement, 1000),
         avg_profitability |-> Round(st.avg_profitability, 1000)]

\* segment_data of each segment the loop does not skip (an empty segment is
\* skipped), in loop order
RECURSIVE ScoredStats(_, _, _)
ScoredStats(d, segs, k) ==
    IF k = 0 THEN <<>>
    ELSE LET before == ScoredStats(d, segs, k - 1)
         IN  IF Cardinality(segs[k].mask) = 0
             THEN before
             ELSE Append(before, SegmentStats(d, segs[k]))

\* the loop body over them; noises[i] is the draw of the i-th scored segment
ScoreLoop(stats, noises, m) ==
    [i \in 1..Len(stats) |-> scored_segment(stats[i], noises[i], m)]

\* a sort that puts an entry ahead of the earlier entries of equal score
RECURSIVE InsertDescUnstable(_, _)
InsertDescUnstable(x, s) ==
    IF s = <<>> THEN <<x>>
    ELSE IF Head(s).overall_score <= x.overall_score THEN <<x>> \o s
    ELSE <<Head(s)>> \o InsertDescUnstable(x, Tail(s))

RECURSIVE InsertDesc(_, _)
InsertDesc(x, s) ==
    IF s = <<>> THEN <<x>>
    ELSE IF Head(s).overall_score < x.overall_score THEN <<x>> \o s
    ELSE <<Head(s)>> \o InsertDesc(x, Tail(s))

RECURSIVE SortPrefix(_, _)
SortPrefix(s, n) ==
    IF n = 0 THEN <<>> ELSE InsertDesc(s[n], SortPrefix(s, n - 1))

sort_by_overall_score(s) == SortPrefix(s, Len(s))

compute_segment_scores(stats, noises, m) ==
    sort_by_overall_score(ScoreLoop(stats, noises, m))

(***************************************************************************)
(* Inputs.                                                                 *)
(***************************************************************************)
\* rows that differ in what the partitioner reads, all abandoned today: never
\* ordered or ordered yesterday, three order values, two engagement and
\* two profitability scores
PartitionProfiles ==
    [cart_abandoned_date : {DateStr(0)},
     last_order_date : {NoDate, DateStr(0 - 1)},
     avg_order_value : {500, 1500, 3000},
     sessions_last_30d : {8},
     engagement_score : {0, 1000},
     profitability_score : {0, 1000}]

\* rows that differ in what define_universe reads: no abandonment date, one
\* just outside the window, on its edge, today and tomorrow; their last
\* order is older than the recency window
UniverseProfiles ==
    [cart_abandoned_date :
        {NoDate, DateStr(0 - WindowDays - 1), DateStr(0 - WindowDays),
         DateStr(0), DateStr(1)},
     last_order_date : {DateStr(0 - RecentDays - 1)},
     avg_order_value : {500},
     sessions_last_30d : {8},
     engagement_score : {500},
     profitability_score : {1000}]

WithUserId(r, i) ==
    [user_id |-> i,
     cart_abandoned_date |-> r.cart_abandoned_date,
     last_order_date |-> r.last_order_date,
     avg_order_value |-> r.avg_order_value,
     sessions_last_30d |-> r.sessions_last_30d,
     engagement_score |-> r.engagement_score,
     profitability_score |-> r.profitability_score]

\* draws of np.random.normal(0.1, 0.05), in thousandths
NoiseValues == {0 - 50, 100, 350}

\* the draws the pipeline runs take
PipelineNoiseValues == {0 - 50, 100}

\* the order DataFrames of partition profiles are listed in
ProfileRank(r) ==
    r.avg_order_value * 10000 + r.engagement_score * 4
    + (r.profitability_score \div 500) + (IF notna(r.last_order_date) THEN 1 ELSE 0)

\* one DataFrame per multiset of rows: no operator reads the row order
Canonical(f) ==
    \A i \in DOMAIN f : \A j \in DOMAIN f :
        i < j => ProfileRank(f[i]) <= ProfileRank(f[j])

\* df is a DataFrame of at most MaxUsers rows drawn from profiles, with
\* user_id the row number
DrawFrame(profiles, ordered) ==
    \E n \in 0..MaxUsers : \E f \in [1..n -> profiles] :
        /\ ordered => Canonical(f)
        /\ df = [i \in 1..n |-> WithUserId(f[i], i)]

NoLog == [overlap_warnings |-> {}, verdict |-> "not run"]

ScoreIdle ==
    /\ seg_stats = <<>>
    /\ seg_score = <<>>

RankIdle ==
    /\ rank_in = <<>>
    /\ rank_out = <<>>

InitPipeline ==
    /\ pc = "start"
    /\ min_segment_size \in 0..MaxMinSegmentSize
    /\ universe_df = <<>>
    /\ segments = <<>>
    /\ mece_log = NoLog
    /\ scored_segments = <<>>
    /\ engine_segments = <<>>
    /\ ScoreIdle
    /\ RankIdle

Init ==
    /\ DrawFrame(PartitionProfiles, TRUE) \/ DrawFrame(UniverseProfiles, FALSE)
    /\ InitPipeline

(***************************************************************************)
(* run_segmentation, one step per call it makes.                           *)
(***************************************************************************)
DefineUniverse ==
    /\ pc = "start"
    /\ df' = ConvertCartDates(df)
    /\ universe_df' = define_universe(df)
    /\ pc' = "universe"
    /\ UNCHANGED <<min_segment_size, segments, mece_log, scored_segments,
                   engine_segments, seg_stats, seg_score, rank_in, rank_out>>

\* create_mece_segments ends with self._validate_mece(df, segments)
CreateMeceSegments ==
    /\ pc = "universe"
    /\ segments' = create_mece_segments(universe_df, min_segment_size)
    /\ mece_log' = validate_mece(universe_df, segments')
    /\ pc' = "segmented"
    /\ UNCHANGED <<df, min_segment_size, universe_df, scored_segments,
                   engine_segments, seg_stats, seg_score, rank_in, rank_out>>

\* compute_segment_scores, then self.segments = scored_segments and the return
ComputeSegmentScores ==
    /\ pc = "segmented"
    /\ LET stats == ScoredStats(universe_df, segments, Len(segments))
       IN  \E noises \in [1..Len(stats) -> PipelineNoiseValues] :
              scored_segments' = compute_segment_scores(stats, noises, min_segment_size)
    /\ engine_segments' = scored_segments'
    /\ pc' = "done"
    /\ UNCHANGED <<df, min_segment_size, universe_df, segments, mece_log,
                   seg_stats, seg_score, rank_in, rank_out>>

Next == DefineUniverse \/ CreateMeceSegments \/ ComputeSegmentScores

Spec == Init /\ [][Next]_vars

(***************************************************************************)
(* The body of the scoring loop on its own: one segment's aggregates in,   *)
(* one scored_segment out.  The aggregates range over sizes on both sides  *)
(* of optimal_size and over averages on both sides of the caps.            *)
(***************************************************************************)
default_min_segment_size == 500

SegmentNames == {RuleName(j) : j \in 1..5} \cup {"Other_Bucket"}

StatsInputs ==
    [name : SegmentNames,
     size : {1, optimal_size, optimal_size + 1, 15000, 30000},
     avg_engagement : {Zero, Rat(1, 2), One},
     avg_sessions : {Zero, Rat(8, 1), Rat(25, 1)},
     avg_profitability : {Zero, One},
     avg_aov : {Zero, Rat(500, 1), Rat(3000, 1)}]

PipelineIdle ==
    /\ df = <<>>
    /\ universe_df = <<>>
    /\ segments = <<>>
    /\ mece_log = NoLog
    /\ scored_segments = <<>>
    /\ engine_segments = <<>>

InitScore ==
    /\ pc = "score"
    /\ min_segment_size = default_min_segment_size
    /\ PipelineIdle
    /\ RankIdle
    /\ \E st \in StatsInputs : seg_stats = <<st>>
    /\ seg_score = <<>>

ScoreSegment ==
    /\ pc = "score"
    /\ \E noise \in NoiseValues :
          seg_score' = <<scored_segment(seg_stats[1], noise, min_segment_size)>>
    /\ pc' = "scored"
    /\ UNCHANGED <<df, min_segment_size, universe_df, segments, mece_log,
                   scored_segments, engine_segments, seg_stats, rank_in, rank_out>>

NextScore == ScoreSegment

ScoreSpec == InitScore /\ [][NextScore]_vars

(***************************************************************************)
(* The sort that ends compute_segment_scores on its own: scored segments   *)
(* in the order the loop appended them, with equal scores among them.      *)
(***************************************************************************)
RankScores == {300, 500, 700}

ArrivalName(i) == IF i <= 5 THEN RuleName(i) ELSE "Other_Bucket"

InitRank ==
    /\ pc = "rank"
    /\ min_segment_size = default_min_segment_size
    /\ PipelineIdle
    /\ ScoreIdle
    /\ \E n \in 0..MaxRanked : \E f \in [1..n -> RankScores] :
          rank_in = [i \in 1..n |->
                        [segment_name |-> ArrivalName(i), overall_score |-> f[i]]]
    /\ rank_out = <<>>

RankSegments ==
    /\ pc = "rank"
    /\ rank_out' = sort_by_overall_score(rank_in)
    /\ pc' = "ranked"
    /\ UNCHANGED <<df, min_segment_size, universe_df, segments, mece_log,
                   scored_segments, engine_segments, seg_stats, seg_score, rank_in>>

NextRank == RankSegments

RankSpec == InitRank /\ [][NextRank]_vars

(***************************************************************************)
(* Properties.                                                             *)
(***************************************************************************)
Segmented == pc \in {"segmented", "done"}

SegmentIndexes == 1..Len(segments)

\* the users of every returned segment together
Covered == UNION {segments[k].mask : k \in SegmentIndexes}

RECURSIVE SumOfSizes(_)
SumOfSizes(k) == IF k = 0 THEN 0 ELSE segments[k].size + SumOfSizes(k - 1)

\* rule j was materialized: a returned segment carries its priority
RuleMaterialized(j) == \E k \in SegmentIndexes : segments[k].priority = j

\* the masks of the returned explicit segments together
ExplicitCovered ==
    UNION {segments[k].mask : k \in {i \in SegmentIndexes : segments[i].priority # 999}}

\* C1 (exhaustiveness): after partitioning a non-empty universe, the union
\* of the segments' member sets is the whole universe and the segment sizes
\* sum to the universe size, whatever rules were materialized or skipped.
C1_Exhaustive ==
    (Segmented /\ Len(universe_df) > 0) =>
        /\ Covered = Rows(universe_df)
        /\ SumOfSizes(Len(segments)) = Len(universe_df)

\* C2 (disjointness): no two distinct returned segments share a user.
C2_Disjoint ==
    Segmented =>
        \A j \in SegmentIndexes : \A k \in SegmentIndexes :
            j # k => segments[j].mask \cap segments[k].mask = {}

\* C2 witness: a partition with at least three non-empty segments.
C2_Witness ==
    /\ Segmented
    /\ Cardinality({k \in SegmentIndexes : segments[k].mask # {}}) >= 3

\* C3 (fold-forward): an explicit rule whose candidate set is smaller than
\* min_segment_size yields no segment, and all its candidates stay in
\* remaining and end up in some returned segment.
C3_FoldForward ==
    Segmented =>
        LET p == Partition(universe_df, min_segment_size)
        IN  \A j \in 1..5 :
                ~Materialized(p.mask[j], min_segment_size) =>
                    /\ ~RuleMaterialized(j)
                    /\ p.mask[j] \subseteq p.remaining[j]
                    /\ p.mask[j] \subseteq Covered

\* C4 (catch-all totality): exactly one Other_Bucket is returned, it is the
\* last segment, and its members are exactly the universe users that are in
\* no materialized explicit segment.
C4_CatchAll ==
    Segmented =>
        /\ Len(segments) >= 1
        /\ Cardinality({k \in SegmentIndexes : segments[k].name = "Other_Bucket"}) = 1
        /\ segments[Len(segments)].name = "Other_Bucket"
        /\ segments[Len(segments)].mask = Rows(universe_df) \ ExplicitCovered

\* what _validate_mece found: an overlap or an incomplete cover
ViolationFound ==
    \/ mece_log.overlap_warnings # {}
    \/ mece_log.verdict = "ERROR: Not collectively exhaustive!"

\* C5 (validation is fatal): once the validation has found an overlap or an
\* incomplete cover the run halts: scoring is not reached and no scored
\* segments are returned.
C5_ValidationFatal ==
    ViolationFound =>
        /\ pc # "done"
        /\ scored_segments = <<>>
        /\ engine_segments = <<>>

\* C6 (empty universe): partitioning an empty universe produces no segments
\* at all, not a list holding an empty catch-all.
C6_EmptyUniverse ==
    (Segmented /\ Len(universe_df) = 0) => segments = <<>>

\* C7 (monotonic priority): a user of a returned segment satisfies the
\* predicate of no higher-priority rule that was materialized.
C7_MonotonicPriority ==
    Segmented =>
        LET th == Thresholds(universe_df)
        IN  \A k \in SegmentIndexes : \A i \in segments[k].mask : \A j \in 1..5 :
                (j < segments[k].priority /\ RuleMaterialized(j)) =>
                    ~RulePred(j, th, universe_df[i])

\* C7 witness: a user sits in a segment of priority 4 or lower while a
\* higher-priority segment holds users, and some user sits in a segment
\* although it satisfies the predicate of a skipped higher rule.
C7_Witness ==
    /\ Segmented
    /\ \E k \in SegmentIndexes :
          /\ segments[k].priority >= 4
          /\ segments[k].mask # {}
          /\ \E j \in SegmentIndexes :
                segments[j].priority < segments[k].priority /\ segments[j].mask # {}
    /\ \E k \in SegmentIndexes : \E i \in segments[k].mask : \E j \in 2..5 :
          /\ j < segments[k].priority
          /\ ~RuleMaterialized(j)
          /\ RulePred(j, Thresholds(universe_df), universe_df[i])

ScoreFields(sc) ==
    {sc.conversion_potential, sc.profitability, sc.lift_vs_control,
     sc.strategic_fit, sc.size_score, sc.overall_score}

\* C8 (score bounds): the five sub-scores and the overall score of a scored
\* segment lie in [0, 1] (0..1000 thousandths), for every noise draw.
C8_ScoreBounds ==
    seg_score # <<>> => \A x \in ScoreFields(seg_score[1]) : 0 <= x /\ x <= 1000

\* C9 (universe selection): the universe is exactly the input records whose
\* cart-abandonment timestamp is present and lies in [now - 7 days, now].
C9_UniverseWindow ==
    pc # "start" =>
        {r.user_id : r \in {universe_df[i] : i \in Rows(universe_df)}} =
            {df[i].user_id : i \in
                {k \in Rows(df) :
                    /\ df[k].cart_abandoned_date.kind = "datetime"
                    /\ df[k].cart_abandoned_date.t >= 0 - WindowDays
                    /\ df[k].cart_abandoned_date.t <= 0}}

\* position of the entry named n in the arrival order
ArrivalIndex(n) == CHOOSE i \in 1..Len(rank_in) : rank_in[i].segment_name = n

\* C10 (ranking): the ranked list holds the arrived entries in non-increasing
\* overall score, entries of equal score in arrival order, and ranking the
\* ranked list again leaves it as it is.
C10_Ranking ==
    pc = "ranked" =>
        /\ Len(rank_out) = Len(rank_in)
        /\ {rank_out[i] : i \in 1..Len(rank_out)} = {rank_in[i] : i \in 1..Len(rank_in)}
        /\ \A i \in 1..Len(rank_out) : \A j \in 1..Len(rank_out) :
              i < j =>
                /\ rank_out[i].overall_score >= rank_out[j].overall_score
                /\ rank_out[i].overall_score = rank_out[j].overall_score =>
                      ArrivalIndex(rank_out[i].segment_name)
                          < ArrivalIndex(rank_out[j].segment_name)
        /\ sort_by_overall_score(rank_out) = rank_out

\* C10 witness: a ranked list whose arrival order had a lower score ahead of
\* a higher one and two entries of equal score.
C10_Witness ==
    /\ pc = "ranked"
    /\ \E i \in 1..Len(rank_in) : \E j \in 1..Len(rank_in) :
          i < j /\ rank_in[i].overall_score < rank_in[j].overall_score
    /\ \E i \in 1..Len(rank_in) : \E j \in 1..Len(rank_in) :
          i < j /\ rank_in[i].overall_score = rank_in[j].overall_score

(***************************************************************************)
(* The ten-user scenario: five users of low order value and low            *)
(* engagement that never ordered (rows 1..5), three of medium order value  *)
(* and high engagement (rows 6..8) and the two of highest order value      *)
(* (rows 9..10), partitioned with min_segment_size = 1.  What the scenario *)
(* leaves open is drawn: whether the users of a group share one value or   *)
(* differ, the engagement of the two top users, each group's profitability *)
(* and whether the medium and top users ordered recently.                  *)
(***************************************************************************)
LowRows == 1..5

MedRows == 6..8

HighRows == 9..10

ScenarioRows == LowRows \cup MedRows \cup HighRows

\* order values by row: a group shares one value or its values differ
LowAovs == {<<400, 400, 400, 400, 400>>, <<300, 350, 400, 450, 500>>}

MedAovs == {<<1500, 1500, 1500>>, <<1400, 1500, 1600>>}

HighAovs == {<<3000, 3000>>, <<3000, 4000>>}

LowEngagements == {<<100, 100, 100, 100, 100>>, <<50, 100, 150, 200, 250>>}

HighEngagements == {<<900, 900, 900>>, <<800, 900, 950>>}

\* the scenario does not say how engaged the two top users are
TopEngagements == {<<100, 100>>, <<100, 900>>, <<900, 900>>}

GroupProfitabilities == {200, 800}

RecentOrders == {NoDate, DateStr(0 - 1)}

ScenarioFrame(la, ma, ha, le, me, he, pl, pm, ph, om, oh) ==
    [i \in ScenarioRows |->
        [user_id |-> i,
         cart_abandoned_date |-> DateStr(0),
         last_order_date |->
            IF i \in LowRows THEN NoDate ELSE IF i \in MedRows THEN om ELSE oh,
         avg_order_value |->
            IF i \in LowRows THEN la[i]
            ELSE IF i \in MedRows THEN ma[i - 5] ELSE ha[i - 8],
         sessions_last_30d |-> 8,
         engagement_score |->
            IF i \in LowRows THEN le[i]
            ELSE IF i \in MedRows THEN me[i - 5] ELSE he[i - 8],
         profitability_score |->
            IF i \in LowRows THEN pl ELSE IF i \in MedRows THEN pm ELSE ph]]

InitScenario ==
    /\ \E la \in LowAovs : \E ma \in MedAovs : \E ha \in HighAovs :
       \E le \in LowEngagements : \E me \in HighEngagements : \E he \in TopEngagements :
       \E pl \in GroupProfitabilities : \E pm \in GroupProfitabilities :
       \E ph \in GroupProfitabilities :
       \E om \in RecentOrders : \E oh \in RecentOrders :
          df = ScenarioFrame(la, ma, ha, le, me, he, pl, pm, ph, om, oh)
    /\ pc = "start"
    /\ min_segment_size = 1
    /\ universe_df = <<>>
    /\ segments = <<>>
    /\ mece_log = NoLog
    /\ scored_segments = <<>>
    /\ engine_segments = <<>>
    /\ ScoreIdle
    /\ RankIdle

ScenarioSpec == InitScenario /\ [][Next]_vars

\* the returned segment named n, or an empty one when none carries the name
SegmentNamed(n) ==
    IF \E k \in SegmentIndexes : segments[k].name = n
    THEN segments[CHOOSE k \in SegmentIndexes : segments[k].name = n]
    ELSE Segment(n, {}, 0)

ScenarioSegmented == Segmented /\ Len(universe_df) = 10 /\ min_segment_size = 1

IdenticalUsers ==
    \A i \in Rows(universe_df) : \A j \in Rows(universe_df) :
        /\ Aov(universe_df[i]) = Aov(universe_df[j])
        /\ Eng(universe_df[i]) = Eng(universe_df[j])
        /\ Prof(universe_df[i]) = Prof(universe_df[j])

\* C12 (identical users): when every user of a non-empty universe has the
\* same order value, engagement and profitability, one returned segment
\* holds the whole universe and every other returned segment is empty, for
\* every universe size and every min_segment_size.
C12_IdenticalUsers ==
    (Segmented /\ Len(universe_df) > 0 /\ IdenticalUsers) =>
        \E k \in SegmentIndexes :
            /\ segments[k].mask = Rows(universe_df)
            /\ \A j \in SegmentIndexes : j # k => segments[j].mask = {}

\* value < threshold
LT(x, thr) == thr[2] # 0 /\ x * thr[2] < thr[1]

\* C13 (rule 3 membership): every member of a returned
\* Med_AOV_Med_Eng_High_Prof segment has aov_medium <= AOV < aov_high,
\* engagement_medium <= engagement < engagement_high and profitability >=
\* profitability_high, also when rule 2 was skipped as undersized.
C13_Rule3Membership ==
    Segmented =>
        LET th == Thresholds(universe_df)
        IN  \A k \in SegmentIndexes :
                segments[k].name = "Med_AOV_Med_Eng_High_Prof" =>
                    \A i \in segments[k].mask :
                        /\ GE(Aov(universe_df[i]), th.aov_medium)
                        /\ LT(Aov(universe_df[i]), th.aov_high)
                        /\ GE(Eng(universe_df[i]), th.engagement_medium)
                        /\ LT(Eng(universe_df[i]), th.engagement_high)
                        /\ GE(Prof(universe_df[i]), th.profitability_high)

\* C14 (no side effects): a call of define_universe leaves the caller's
\* DataFrame as it was, the same records with the same field values, and
\* changes no engine field that partitioning or scoring reads.
C14_NoSideEffects ==
    [][DefineUniverse =>
          /\ df' = df
          /\ min_segment_size' = min_segment_size
          /\ engine_segments' = engine_segments]_vars

====
